---- MODULE Spec2Model ----
(***************************************************************************)
(* Agronova prototype (src/src/App.jsx): the React component's state       *)
(* (view, products, chain, user, toast), the local state of the mounted    *)
(* dashboard, the pending toast timers, and one action per event handler.  *)
(*                                                                         *)
(* Strings that the program computes (hashes, product ids, timestamps,     *)
(* JSON bodies, typed text) are sequences of UTF-16 code units; strings    *)
(* that are fixed labels of the program (types, statuses, roles, names)    *)
(* are TLA+ strings, turned into code units by Chars when they are hashed. *)
(***************************************************************************)
EXTENDS Integers, Sequences, FiniteSets, TLC

(***************************************************************************)
(* Bounds of the model.                                                    *)
(***************************************************************************)
\* The chain never grows beyond this many blocks.
MaxBlocks == 5
\* At most this many toast timers are pending at once.
MaxTimers == 2
\* The clock runs from 0 to MaxTime milliseconds after the base instant.
MaxTime == 1
\* At most this many setChain updaters wait in React's queue at once.
MaxPending == 2

(***************************************************************************)
(* Program constants.                                                      *)
(***************************************************************************)
\* The least id of the Farmer form: Math.floor(1000 + Math.random() * 9000).
IdBase == 1000
\* (h * 31 + c) in pseudoHash
HashMul == 31
\* >>> 0 keeps 32 bits; the model keeps them as two 16-bit halves.
HalfWord == 65536

(***************************************************************************)
(* Character codes of the fixed strings of the program and of the inputs.  *)
(***************************************************************************)
CharTable ==
    ("type" :> <<116,121,112,101>>)
 @@ ("product" :> <<112,114,111,100,117,99,116>>)
 @@ ("id" :> <<105,100>>)
 @@ ("name" :> <<110,97,109,101>>)
 @@ ("quantityKg" :> <<113,117,97,110,116,105,116,121,75,103>>)
 @@ ("basePricePerKg" :> <<98,97,115,101,80,114,105,99,101,80,101,114,75,103>>)
 @@ ("farmer" :> <<102,97,114,109,101,114>>)
 @@ ("village" :> <<118,105,108,108,97,103,101>>)
 @@ ("status" :> <<115,116,97,116,117,115>>)
 @@ ("_hashTemp" :> <<95,104,97,115,104,84,101,109,112>>)
 @@ ("actor" :> <<97,99,116,111,114>>)
 @@ ("from" :> <<102,114,111,109>>)
 @@ ("to" :> <<116,111>>)
 @@ ("pricePerKg" :> <<112,114,105,99,101,80,101,114,75,103>>)
 @@ ("LISTING" :> <<76,73,83,84,73,78,71>>)
 @@ ("TRANSFER" :> <<84,82,65,78,83,70,69,82>>)
 @@ ("LISTED" :> <<76,73,83,84,69,68>>)
 @@ ("SOLD" :> <<83,79,76,68>>)
 @@ ("GENESIS" :> <<71,69,78,69,83,73,83>>)
 @@ ("0xGENESIS" :> <<48,120,71,69,78,69,83,73,83>>)
 @@ ("AGR-" :> <<65,71,82,45>>)
 @@ ("null" :> <<110,117,108,108>>)
 @@ ("F-001" :> <<70,45,48,48,49>>)
 @@ ("F-002" :> <<70,45,48,48,50>>)
 @@ ("C-001" :> <<67,45,48,48,49>>)
 @@ ("B-001" :> <<66,45,48,48,49>>)
 @@ ("A-001" :> <<65,45,48,48,49>>)
 @@ ("Ravi Kumar" :> <<82,97,118,105,32,75,117,109,97,114>>)
 @@ ("Sita Devi" :> <<83,105,116,97,32,68,101,118,105>>)
 @@ ("Anil Sharma" :> <<65,110,105,108,32,83,104,97,114,109,97>>)
 @@ ("GreenSupply Pvt Ltd" :> <<71,114,101,101,110,83,117,112,112,108,121,32,80,118,116,32,76,116,100>>)
 @@ ("Admin" :> <<65,100,109,105,110>>)
 @@ ("Narsinghpur" :> <<78,97,114,115,105,110,103,104,112,117,114>>)
 @@ ("Rewa" :> <<82,101,119,97>>)
 @@ ("Organic Tomatoes" :> <<79,114,103,97,110,105,99,32,84,111,109,97,116,111,101,115>>)
 @@ ("Basmati Rice" :> <<66,97,115,109,97,116,105,32,82,105,99,101>>)
 @@ ("Wheat" :> <<87,104,101,97,116>>)
 @@ ("Agent X" :> <<65,103,101,110,116,32,88>>)
 @@ ("2025-01-01T00:00:00." :> <<50,48,50,53,45,48,49,45,48,49,84,48,48,58,48,48,58,48,48,46>>)
 @@ ("Z" :> <<90>>)
 @@ ("40" :> <<52,48>>)
 @@ ("0" :> <<48>>)
 @@ ("-5" :> <<45,53>>)
 @@ ("abc" :> <<97,98,99>>)
 @@ (" " :> <<32>>)
 @@ ("30" :> <<51,48>>)
 @@ ("3f9a1c07" :> <<51,102,57,97,49,99,48,55>>)
 @@ ("b2" :> <<98,50>>)
 @@ ("" :> <<>>)
 @@ ("abc" :> <<97,98,99>>)
 @@ ("-5" :> <<45,53>>)

Chars(s) == CharTable[s]

\* String.prototype.toUpperCase on ASCII text.
ToUpperCase(cs) ==
    [i \in 1..Len(cs) |-> IF cs[i] >= 97 /\ cs[i] <= 122 THEN cs[i] - 32 ELSE cs[i]]

\* One lowercase hexadecimal digit, as Number.prototype.toString(16) writes it.
HexDigit(d) == IF d < 10 THEN 48 + d ELSE 87 + d

\* Four hexadecimal digits of a 16-bit half, leading zeros kept (padStart).
Hex4(w) ==
    << HexDigit(w \div 4096), HexDigit((w \div 256) % 16),
       HexDigit((w \div 16) % 16), HexDigit(w % 16) >>

\* The decimal digits of a natural number.
RECURSIVE DecDigits(_)
DecDigits(n) ==
    IF n < 10 THEN <<48 + n>> ELSE Append(DecDigits(n \div 10), 48 + (n % 10))

(***************************************************************************)
(* JavaScript numbers that the forms can produce: an integer or NaN.       *)
(***************************************************************************)
NaN == [nan |-> TRUE, v |-> 0]
Num(n) == [nan |-> FALSE, v |-> n]

\* JSON.stringify of a number: NaN is written as null.
NumberJSON(x) ==
    IF x.nan THEN Chars("null")
    ELSE IF x.v < 0 THEN <<45>> \o DecDigits(0 - x.v) ELSE DecDigits(x.v)

IsSpace(c) == c = 32 \/ c = 9 \/ c = 10 \/ c = 13

\* String.prototype.trim.
RECURSIVE TrimLeft(_)
TrimLeft(cs) ==
    IF cs # <<>> /\ IsSpace(Head(cs)) THEN TrimLeft(Tail(cs)) ELSE cs
RECURSIVE TrimRight(_)
TrimRight(cs) ==
    IF cs # <<>> /\ IsSpace(cs[Len(cs)]) THEN TrimRight(SubSeq(cs, 1, Len(cs) - 1)) ELSE cs
Trim(cs) == TrimRight(TrimLeft(cs))

RECURSIVE DigitsValue(_)
DigitsValue(cs) ==
    IF cs = <<>> THEN 0 ELSE DigitsValue(SubSeq(cs, 1, Len(cs) - 1)) * 10 + (cs[Len(cs)] - 48)

AllDigits(cs) == cs # <<>> /\ \A i \in 1..Len(cs) : cs[i] >= 48 /\ cs[i] <= 57

\* Number(text) for the decimal integer texts a form can hold: blank text is 0,
\* an optionally signed run of digits is its value, anything else is NaN.
ToNumber(cs) ==
    LET t == Trim(cs) IN
    IF t = <<>> THEN Num(0)
    ELSE IF AllDigits(t) THEN Num(DigitsValue(t))
    ELSE IF t[1] = 45 /\ AllDigits(Tail(t)) THEN Num(0 - DigitsValue(Tail(t)))
    ELSE IF t[1] = 43 /\ AllDigits(Tail(t)) THEN Num(DigitsValue(Tail(t)))
    ELSE NaN

(***************************************************************************)
(* Utilities (App.jsx 17-40).                                              *)
(***************************************************************************)
\* new Date().toISOString() at t milliseconds after the base instant.
nowISO(t) ==
    Chars("2025-01-01T00:00:00.")
      \o << 48 + ((t \div 100) % 10), 48 + ((t \div 10) % 10), 48 + (t % 10) >>
      \o Chars("Z")

\* Math.random().toString(16).slice(2, 10): up to eight hexadecimal digits.
RandomSuffixes == { Chars("3f9a1c07"), Chars("b2") }

\* One turn of the loop of pseudoHash: (h * 31 + c) >>> 0 on the halves <<hi, lo>>.
HashStep(h, c) ==
    LET v == h[2] * HashMul + c
    IN  << (h[1] * HashMul + (v \div HalfWord)) % HalfWord, v % HalfWord >>

\* The loop of pseudoHash from position i on, eight characters to a call
\* where eight are left.  (h[1] < 0 never holds: reading h on entry makes TLC
\* evaluate it there, which keeps its evaluation stack shallow.)
RECURSIVE HashLoop(_, _, _)
HashLoop(input, i, h) ==
    IF i > Len(input) \/ h[1] < 0 THEN h
    ELSE IF i + 7 <= Len(input)
    THEN HashLoop(input, i + 8,
            HashStep(HashStep(HashStep(HashStep(HashStep(HashStep(HashStep(HashStep(h,
                input[i]), input[i + 1]), input[i + 2]), input[i + 3]),
                input[i + 4]), input[i + 5]), input[i + 6]), input[i + 7]))
    ELSE HashLoop(input, i + 1, HashStep(h, input[i]))

\* pseudoHash(input) where Math.random() contributes the suffix rnd.
pseudoHash(input, rnd) ==
    LET h == HashLoop(input, 1, <<0, 0>>)
    IN  ToUpperCase(Hex4(h[1]) \o Hex4(h[2]) \o rnd)


(***************************************************************************)
(* Demo seeds (App.jsx 46-72).                                             *)
(***************************************************************************)
\* The id `AGR-${n}`.
AGR(n) == Chars("AGR-") \o DecDigits(n)

seedProducts ==
    << [ id |-> AGR(1001), name |-> "Organic Tomatoes",
         quantityKg |-> Num(120), basePricePerKg |-> Num(28),
         farmer |-> [id |-> "F-001", name |-> "Ravi Kumar", village |-> "Narsinghpur"],
         status |-> "LISTED" ],
       [ id |-> AGR(1002), name |-> "Basmati Rice",
         quantityKg |-> Num(500), basePricePerKg |-> Num(62),
         farmer |-> [id |-> "F-002", name |-> "Sita Devi", village |-> "Rewa"],
         status |-> "LISTED" ] >>

\* A user without a village has village "" here: the code reads user.village || "".
seedUsers ==
    << [ id |-> "F-001", username |-> "farmer1", password |-> "password1",
         role |-> "farmer", name |-> "Ravi Kumar", village |-> "Narsinghpur" ],
       [ id |-> "F-002", username |-> "farmer2", password |-> "password2",
         role |-> "farmer", name |-> "Sita Devi", village |-> "Rewa" ],
       [ id |-> "C-001", username |-> "consumer1", password |-> "password1",
         role |-> "consumer", name |-> "Anil Sharma", village |-> "" ],
       [ id |-> "B-001", username |-> "broker1", password |-> "password1",
         role |-> "broker", name |-> "GreenSupply Pvt Ltd", village |-> "" ],
       [ id |-> "A-001", username |-> "admin", password |-> "password",
         role |-> "admin", name |-> "Admin", village |-> "" ] >>

(***************************************************************************)
(* JSON.stringify of the data of a block (makeBlock, App.jsx 31), with the *)
(* keys in the order the object literals of the program create them.       *)
(***************************************************************************)
Quote(cs) == <<34>> \o cs \o <<34>>
Key(k) == Quote(Chars(k)) \o <<58>>

FarmerJSON(f) ==
    <<123>> \o Key("id") \o Quote(Chars(f.id))
      \o <<44>> \o Key("name") \o Quote(Chars(f.name))
      \o <<44>> \o Key("village") \o Quote(Chars(f.village)) \o <<125>>

BrokerJSON(b) ==
    <<123>> \o Key("id") \o Quote(Chars(b.id))
      \o <<44>> \o Key("name") \o Quote(Chars(b.name)) \o <<125>>

\* A listed product; a seed product carries _hashTemp once the chain
\* initializer has stored it (App.jsx 90).
ProductJSON(p) ==
    <<123>> \o Key("id") \o Quote(p.id)
      \o <<44>> \o Key("name") \o Quote(Chars(p.name))
      \o <<44>> \o Key("quantityKg") \o NumberJSON(p.quantityKg)
      \o <<44>> \o Key("basePricePerKg") \o NumberJSON(p.basePricePerKg)
      \o <<44>> \o Key("farmer") \o FarmerJSON(p.farmer)
      \o <<44>> \o Key("status") \o Quote(Chars(p.status))
      \o (IF "hashTemp" \in DOMAIN p
          THEN <<44>> \o Key("_hashTemp") \o Quote(p.hashTemp) ELSE <<>>)
      \o <<125>>

\* The product of a TRANSFER block: { id, name, quantityKg } (App.jsx 140).
SoldJSON(p) ==
    <<123>> \o Key("id") \o Quote(p.id)
      \o <<44>> \o Key("name") \o Quote(Chars(p.name))
      \o <<44>> \o Key("quantityKg") \o NumberJSON(p.quantityKg) \o <<125>>

JSONstringify(data) ==
    IF data.type = "LISTING"
    THEN <<123>> \o Key("type") \o Quote(Chars("LISTING"))
           \o <<44>> \o Key("product") \o ProductJSON(data.product)
           \o <<44>> \o Key("actor") \o FarmerJSON(data.actor) \o <<125>>
    ELSE <<123>> \o Key("type") \o Quote(Chars("TRANSFER"))
           \o <<44>> \o Key("product") \o SoldJSON(data.product)
           \o <<44>> \o Key("from") \o FarmerJSON(data.from)
           \o <<44>> \o Key("to") \o BrokerJSON(data.to)
           \o <<44>> \o Key("pricePerKg") \o NumberJSON(data.pricePerKg) \o <<125>>

(***************************************************************************)
(* makeBlock (App.jsx 30-40): the clock is read twice, at tHash for the    *)
(* hash and at tStamp for the timestamp.                                   *)
(***************************************************************************)
makeBlockUnlinked(prevHash, data, tHash, tStamp, rnd) ==
    [ index |-> 0,
      timestamp |-> nowISO(tStamp),
      prevHash |-> prevHash,
      data |-> data,
      hash |-> pseudoHash(JSONstringify(data) \o nowISO(tHash), rnd) ]

makeBlock(prevHash, data, tHash, tStamp, rnd) ==
    [ index |-> 0,
      timestamp |-> nowISO(tStamp),
      prevHash |-> prevHash,
      data |-> data,
      hash |-> pseudoHash(prevHash \o JSONstringify(data) \o nowISO(tHash), rnd) ]

\* The genesis block of the chain initializer and of resetBlockchain.
GenesisBlockLinked(t, rnd) ==
    [ index |-> 0,
      timestamp |-> nowISO(t),
      prevHash |-> pseudoHash(Chars("GENESIS"), rnd),
      data |-> [type |-> "GENESIS", message |-> "Agronova Chain Initialized"],
      hash |-> pseudoHash(Chars("GENESIS"), rnd) ]

GenesisBlock(t, rnd) ==
    [ index |-> 0,
      timestamp |-> nowISO(t),
      prevHash |-> Chars("0xGENESIS"),
      data |-> [type |-> "GENESIS", message |-> "Agronova Chain Initialized"],
      hash |-> pseudoHash(Chars("GENESIS"), rnd) ]


(***************************************************************************)
(* State.                                                                  *)
(***************************************************************************)
VARIABLES
    view,       \* useState("login"): the screen shown
    products,   \* useState(seedProducts): newest first
    chain,      \* useState(() => [genesis, ...seedBlocks])
    user,       \* useState(null): 0 for null, else the position in seedUsers
    toast,      \* useState(null): NoToast for null
    local,      \* the useState cells of the dashboard that is mounted
    timers,     \* setTimeout(() => setToast(null), 3000) callbacks pending
    now,        \* the clock, in milliseconds after the base instant
    event,      \* the handler that ran last and how it ended
    pending     \* the setChain updaters React has queued and not yet applied

vars == << view, products, chain, user, toast, local, timers, now, event, pending >>

\* event after a handler none of whose outcomes the properties tell apart.
Other == [op |-> "other", ok |-> TRUE]

NoUser == 0
NoToast == [message |-> <<>>, type |-> ""]
Toast(parts, type) == [message |-> parts, type |-> type]

Roles == {"farmer", "consumer", "broker", "admin"}

\* user?.role and user?.id: "" stands for undefined.
RoleOf(u) == IF u = NoUser THEN "" ELSE seedUsers[u].role
IdOf(u) == IF u = NoUser THEN "" ELSE seedUsers[u].id

\* `AGR-${Math.floor(1000 + Math.random() * 9000)}`: two of the ids the draw
\* can give, one that no seed has and one that a seed has.
FormIds == { AGR(IdBase), AGR(IdBase + 1) }

(***************************************************************************)
(* The dashboards are functions created anew by every render of            *)
(* AgronovaPrototype (App.jsx 223, 366, 478, 540, 621, 705), so React      *)
(* mounts them afresh whenever the state of AgronovaPrototype changes:     *)
(* Mounted(v, u) is the set of initial local states of the dashboard       *)
(* shown for view v and user u.                                            *)
(***************************************************************************)
Mounted(v, u) ==
    CASE v = "login" -> { [comp |-> "Login"] }
      [] v = "landing" -> { [comp |-> "Landing"] }
      [] v = "farmer" ->
            IF RoleOf(u) # "farmer" THEN { [comp |-> "Denied"] }
            ELSE { [comp |-> "Farmer", id |-> i, errors |-> {}] : i \in FormIds }
      [] v = "broker" ->
            IF RoleOf(u) # "broker" THEN { [comp |-> "Denied"] }
            ELSE { [comp |-> "Broker",
                    broker |-> [id |-> seedUsers[u].id, name |-> seedUsers[u].name]] }
      [] v = "consumer" ->
            IF RoleOf(u) # "consumer" THEN { [comp |-> "Denied"] }
            ELSE { [comp |-> "Consumer", query |-> <<>>] }
      [] v = "admin" ->
            IF RoleOf(u) # "admin" THEN { [comp |-> "Denied"] }
            ELSE { [comp |-> "Admin", filterRole |-> "all"] }
      [] v = "explorer" -> { [comp |-> "Explorer", expanded |-> <<>>] }

\* A render after the state of AgronovaPrototype changed.
Rerender == local' \in Mounted(view', user')

\* setToast(t); setTimeout(() => setToast(null), 3000)
RaiseToast(t) == toast' = t /\ timers' = timers + 1

\* Construction and the handlers run within one millisecond and draw one suffix: nothing
\* in them reads a timestamp or a hash suffix back.  HashSpec varies both.
HandlerReadings == { <<now, now>> }
HandlerSuffixes == { Chars("3f9a1c07") }

(***************************************************************************)
(* Construction (App.jsx 76-96).                                           *)
(***************************************************************************)
\* The seed blocks: block i links to the _hashTemp stored on seed i - 1.
SeedChain(r0, r1, r2) ==
    LET genesis == GenesisBlock(0, r0)
        d1 == [type |-> "LISTING", product |-> seedProducts[1], actor |-> seedProducts[1].farmer]
        b1 == makeBlock(genesis.hash, d1, 0, 0, r1)
        p1 == [hashTemp |-> b1.hash] @@ seedProducts[1]
        d2 == [type |-> "LISTING", product |-> seedProducts[2], actor |-> seedProducts[2].farmer]
        b2 == makeBlock(p1.hashTemp, d2, 0, 0, r2)
        p2 == [hashTemp |-> b2.hash] @@ seedProducts[2]
    IN  << genesis,
           [b1 EXCEPT !.index = 1, !.data = [d1 EXCEPT !.product = p1]],
           [b2 EXCEPT !.index = 2, !.data = [d2 EXCEPT !.product = p2]] >>

\* The state after the first render, the suffixes drawn from the given set.
Constructed(suffixes) ==
    /\ view = "login"
    /\ \E r0 \in suffixes, r1 \in suffixes, r2 \in suffixes :
          chain = SeedChain(r0, r1, r2)
    /\ products = << chain[2].data.product, chain[3].data.product >>
    /\ user = NoUser
    /\ toast = NoToast
    /\ local \in Mounted("login", NoUser)
    /\ timers = 0
    /\ now = 0
    /\ event = Other
    /\ pending = <<>>

Init == Constructed(HandlerSuffixes)

(***************************************************************************)
(* Shared helpers (App.jsx 99-147).                                        *)
(***************************************************************************)
appendBlockToGenesis(prev, data, tHash, tStamp, rnd) ==
    LET last == prev[Len(prev)]
        block == makeBlock(prev[1].hash, data, tHash, tStamp, rnd)
    IN  Append(prev, [block EXCEPT !.index = last.index + 1])

appendBlockUnindexed(prev, data, tHash, tStamp, rnd) ==
    Append(prev, makeBlock(prev[Len(prev)].hash, data, tHash, tStamp, rnd))

appendBlock(prev, data, tHash, tStamp, rnd) ==
    LET last == prev[Len(prev)]
        block == makeBlock(last.hash, data, tHash, tStamp, rnd)
    IN  Append(prev, [block EXCEPT !.index = last.index + 1])

\* The two clock readings of one makeBlock call, the second up to a
\* millisecond after the first.
ClockReadings == { <<now, t>> : t \in { n \in {now, now + 1} : n <= MaxTime } }


\* newProd of listProduct.
NewProduct(a, userId) ==
    [ id |-> a.id,
      name |-> a.name,
      quantityKg |-> ToNumber(a.quantityKg),
      basePricePerKg |-> ToNumber(a.basePricePerKg),
      farmer |-> [a.farmer EXCEPT !.id = userId],
      status |-> "LISTED" ]

\* setProducts((prev) => [newProd, ...prev])
ReplaceProducts(newProd, prev) == <<newProd>>

KeepProducts(newProd, prev) == prev

PrependProduct(newProd, prev) == <<newProd>> \o prev

listProduct(a, ts, rnd) ==
    LET newProd == NewProduct(a, IdOf(user))
    IN  /\ products' = PrependProduct(newProd, products)
        /\ chain' = appendBlock(chain,
                        [ type |-> "LISTING", product |-> newProd,
                          actor |-> [a.farmer EXCEPT !.id = IdOf(user)] ],
                        ts[1], ts[2], rnd)
        /\ now' = ts[2]
        /\ RaiseToast(Toast(<<"Product listed successfully!">>, "success"))

\* products.find((p) => p.id === productId): the position of the first match, or 0.
FindProduct(ps, productId) ==
    IF \E i \in 1..Len(ps) : ps[i].id = productId
    THEN CHOOSE i \in 1..Len(ps) :
            /\ ps[i].id = productId
            /\ \A j \in 1..(i - 1) : ps[j].id # productId
    ELSE 0

\* prev.map((p) => p.id === productId ? { ...p, status: "SOLD", broker } : p)
MarkSoldRemoves(ps, productId, broker) ==
    SelectSeq(ps, LAMBDA p : p.id # productId)

MarkSold(ps, productId, broker) ==
    [ i \in 1..Len(ps) |->
        IF ps[i].id = productId
        THEN [status |-> "SOLD", broker |-> broker] @@ ps[i]
        ELSE ps[i] ]

\* The data of the block orderProduct appends for prod.
TransferDataToFarmer(prod, broker) ==
    [ type |-> "TRANSFER",
      product |-> [id |-> prod.id, name |-> prod.name, quantityKg |-> prod.quantityKg],
      from |-> prod.farmer,
      to |-> [id |-> prod.farmer.id, name |-> prod.farmer.name],
      pricePerKg |-> prod.basePricePerKg ]

TransferData(prod, broker) ==
    [ type |-> "TRANSFER",
      product |-> [id |-> prod.id, name |-> prod.name, quantityKg |-> prod.quantityKg],
      from |-> prod.farmer,
      to |-> broker,
      pricePerKg |-> prod.basePricePerKg ]

orderProduct(productId, broker, confirmed, ts, rnd) ==
    IF ~confirmed
    THEN UNCHANGED << products, chain, toast, timers, now >>
    ELSE /\ products' = MarkSold(products, productId, broker)
         /\ LET i == FindProduct(products, productId) IN
            IF i = 0
            THEN UNCHANGED << chain, toast, timers, now >>
            ELSE /\ chain' = appendBlock(chain, TransferData(products[i], broker),
                                         ts[1], ts[2], rnd)
                 /\ now' = ts[2]
                 /\ RaiseToast(Toast(<<"Order placed successfully!">>, "success"))

(***************************************************************************)
(* Login (App.jsx 223-301).                                                *)
(***************************************************************************)
Usernames == { "farmer1", "consumer1", "broker1", "admin" }
Passwords == { "password1", "password" }

\* seedUsers.find(...): the position of the first match, or 0.
FindUser(username, password, role) ==
    LET hit(u) == /\ seedUsers[u].username = username
                  /\ seedUsers[u].password = password
                  /\ seedUsers[u].role = role
    IN  IF \E u \in DOMAIN seedUsers : hit(u)
        THEN CHOOSE u \in DOMAIN seedUsers : hit(u) /\ \A w \in 1..(u - 1) : ~hit(w)
        ELSE NoUser

\* The Login button; it is disabled while username or password is empty.
\* The fields and the error text are cells of Login, which is mounted anew by
\* the render that shows the toast.
handleLogin(username, password, role) ==
    /\ view = "login"
    /\ timers < MaxTimers
    /\ LET foundUser == FindUser(username, password, role) IN
       IF foundUser # NoUser
       THEN /\ user' = foundUser
            /\ view' = seedUsers[foundUser].role
            /\ RaiseToast(Toast(<<"Logged in as ", seedUsers[foundUser].name, "!">>, "success"))
            /\ event' = Other
       ELSE /\ UNCHANGED << user, view >>
            /\ RaiseToast(Toast(<<"Login failed!">>, "error"))
            /\ event' = Other
    /\ Rerender
    /\ UNCHANGED << products, chain, now >>
    /\ UNCHANGED pending

(***************************************************************************)
(* Navigation (App.jsx 157-205, 316-335, 459).                             *)
(***************************************************************************)
\* setView(r): a render follows only if the view changes.
setView(r) ==
    /\ view' = r
    /\ UNCHANGED << products, chain, user, toast, timers, now >>
    /\ IF r = view THEN UNCHANGED local ELSE Rerender
    /\ UNCHANGED pending

\* The buttons of Nav: the logo, ["landing", user?.role, "explorer"], Admin.
NavTargetsAnyRole == {"landing", "explorer"} \cup Roles

NavTargets ==
    {"landing", "explorer"}
      \cup (IF RoleOf(user) # "" THEN {RoleOf(user)} ELSE {})
      \cup (IF RoleOf(user) = "admin" THEN {"admin"} ELSE {})

NavClick(r) ==
    /\ view # "login"
    /\ r \in NavTargets
    /\ setView(r)
    /\ event' = Other

Logout ==
    /\ view # "login"
    /\ timers < MaxTimers
    /\ user' = NoUser
    /\ view' = "login"
    /\ RaiseToast(Toast(<<"Logged out successfully!">>, "success"))
    /\ Rerender
    /\ event' = Other
    /\ UNCHANGED << products, chain, now >>
    /\ UNCHANGED pending

\* The buttons of Landing: the user's own dashboard and the explorer.
LandingTargets ==
    { r \in {"farmer", "consumer", "broker", "explorer"} : r = RoleOf(user) \/ r = "explorer" }
      \cup (IF RoleOf(user) = "admin" THEN {"admin"} ELSE {})

LandingClick(r) ==
    /\ view = "landing"
    /\ r \in LandingTargets
    /\ setView(r)
    /\ event' = Other

(***************************************************************************)
(* Farmer (App.jsx 366-476).                                               *)
(***************************************************************************)
FarmerShown == view = "farmer" /\ RoleOf(user) = "farmer"

\* What a farmer types into the form.
NameInputs == { "Wheat" }
QuantityInputs == { Chars("40"), Chars("0") }
PriceInputs == { Chars("30") }

\* form.quantityKg <= 0 on the text of the field: false for NaN.
NotPositive(cs) == LET n == ToNumber(cs) IN ~n.nan /\ n.v <= 0

\* validateForm: the keys of newErrors.
validateForm(name, quantityKg, basePricePerKg) ==
    (IF name = "" THEN {"name"} ELSE {})
      \cup (IF quantityKg = <<>> \/ NotPositive(quantityKg) THEN {"quantityKg"} ELSE {})
      \cup (IF basePricePerKg = <<>> \/ NotPositive(basePricePerKg)
            THEN {"basePricePerKg"} ELSE {})

\* "Upload to Blockchain"; the button is disabled while a field is empty.
\* The Village field keeps the text it was mounted with, the village of the
\* user, which is not empty for the farmer of Usernames.
Upload(name, quantityKg, basePricePerKg) ==
    /\ FarmerShown
    /\ name # "" /\ quantityKg # <<>> /\ basePricePerKg # <<>>
    /\ LET newErrors == validateForm(name, quantityKg, basePricePerKg) IN
       IF newErrors # {}
       THEN /\ local' = [local EXCEPT !.errors = newErrors]
            /\ event' = [op |-> "list", ok |-> FALSE]
            /\ UNCHANGED << view, products, chain, user, toast, timers, now >>
       ELSE /\ timers < MaxTimers
            /\ Len(chain) < MaxBlocks
            /\ \E ts \in HandlerReadings, rnd \in HandlerSuffixes :
                  listProduct([ id |-> local.id,
                                name |-> name,
                                quantityKg |-> quantityKg,
                                basePricePerKg |-> basePricePerKg,
                                farmer |-> [ id |-> seedUsers[user].id,
                                             name |-> seedUsers[user].name,
                                             village |-> seedUsers[user].village ] ],
                              ts, rnd)
            /\ UNCHANGED << view, user >>
            /\ Rerender
            /\ event' = [op |-> "list", ok |-> TRUE]
    /\ UNCHANGED pending

\* "View Blocks"
ViewBlocks ==
    /\ FarmerShown
    /\ setView("explorer")
    /\ event' = Other

(***************************************************************************)
(* Broker (App.jsx 478-538).                                               *)
(***************************************************************************)
BrokerShown == view = "broker" /\ RoleOf(user) = "broker"

\* products.filter((p) => p.status === "LISTED"): the rows with an Order button.
available == { i \in DOMAIN products : products[i].status = "LISTED" }

BrokerNameInputs == { "Agent X" }

\* Typing in "Broker Name": setBroker({ ...broker, name }).
EditBroker(name) ==
    /\ BrokerShown
    /\ local' = [local EXCEPT !.broker.name = name]
    /\ event' = Other
    /\ UNCHANGED << view, products, chain, user, toast, timers, now >>
    /\ UNCHANGED pending

\* The Order button of row i, and the answer to window.confirm.
Order(i, confirmed) ==
    /\ BrokerShown
    /\ i \in available
    /\ confirmed => timers < MaxTimers /\ Len(chain) < MaxBlocks
    /\ \E ts \in HandlerReadings, rnd \in HandlerSuffixes :
          orderProduct(products[i].id, local.broker, confirmed, ts, rnd)
    /\ UNCHANGED << view, user >>
    /\ IF confirmed THEN Rerender ELSE UNCHANGED local
    /\ event' = [op |-> "order", ok |-> confirmed]
    /\ UNCHANGED pending


(***************************************************************************)
(* Consumer (App.jsx 540-619).                                             *)
(***************************************************************************)
ConsumerShown == view = "consumer" /\ RoleOf(user) = "consumer"

\* b.data?.product?.id === query
Related(ch, query) ==
    { n \in DOMAIN ch : "product" \in DOMAIN ch[n].data /\ ch[n].data.product.id = query }

Min(S) == CHOOSE n \in S : \A m \in S : n <= m
Max(S) == CHOOSE n \in S : \A m \in S : n >= m

\* related.find((b) => b.data?.type === type): a position in the chain, 0 for undefined.
FindLastOfType(ch, related, type) ==
    LET hits == { n \in related : ch[n].data.type = type }
    IN  IF hits = {} THEN 0 ELSE Max(hits)

FindOfType(ch, related, type) ==
    LET hits == { n \in related : ch[n].data.type = type }
    IN  IF hits = {} THEN 0 ELSE Min(hits)

\* The memo `record`: found is FALSE for null; listing and transfer are
\* positions in the chain, 0 for undefined.
record(query, ch) ==
    LET related == Related(ch, query) IN
    IF query = <<>> \/ related = {}
    THEN [found |-> FALSE, listing |-> 0, transfer |-> 0]
    ELSE [ found |-> TRUE,
           listing |-> FindOfType(ch, related, "LISTING"),
           transfer |-> FindOfType(ch, related, "TRANSFER") ]

\* What a consumer types into "Product ID".
QueryInputs == { AGR(IdBase + 1), <<32>> \o AGR(IdBase + 1), AGR(IdBase + 2) }

TypeQuery(q) ==
    /\ ConsumerShown
    /\ local' = [local EXCEPT !.query = q]
    /\ event' = Other
    /\ UNCHANGED << view, products, chain, user, toast, timers, now >>
    /\ UNCHANGED pending

\* "Scan QR Code": setQuery("AGR-1001") and a toast; the render that shows the
\* toast mounts Consumer anew.
ScanQR ==
    /\ ConsumerShown
    /\ timers < MaxTimers
    /\ RaiseToast(Toast(<<"QR code scanned!">>, "success"))
    /\ UNCHANGED << view, products, chain, user, now >>
    /\ Rerender
    /\ event' = Other
    /\ UNCHANGED pending

\* "Search": setQuery(query.trim())
Search ==
    /\ ConsumerShown
    /\ local' = [local EXCEPT !.query = Trim(local.query)]
    /\ event' = Other
    /\ UNCHANGED << view, products, chain, user, toast, timers, now >>
    /\ UNCHANGED pending

(***************************************************************************)
(* Admin (App.jsx 621-703).                                                *)
(***************************************************************************)
AdminShown == view = "admin" /\ RoleOf(user) = "admin"

SetFilterRole(f) ==
    /\ AdminShown
    /\ local' = [local EXCEPT !.filterRole = f]
    /\ event' = Other
    /\ UNCHANGED << view, products, chain, user, toast, timers, now >>
    /\ UNCHANGED pending

resetBlockchainKeepsProducts(confirmed, rnd) ==
    IF ~confirmed
    THEN UNCHANGED << chain, products, toast, timers >>
    ELSE /\ chain' = << GenesisBlock(now, rnd) >>
         /\ UNCHANGED products
         /\ RaiseToast(Toast(<<"Blockchain reset successfully!">>, "success"))

resetBlockchainUnasked(confirmed, rnd) ==
    /\ chain' = << GenesisBlock(now, rnd) >>
    /\ products' = <<>>
    /\ RaiseToast(Toast(<<"Blockchain reset successfully!">>, "success"))

resetBlockchain(confirmed, rnd) ==
    IF ~confirmed
    THEN UNCHANGED << chain, products, toast, timers >>
    ELSE /\ chain' = << GenesisBlock(now, rnd) >>
         /\ products' = <<>>
         /\ RaiseToast(Toast(<<"Blockchain reset successfully!">>, "success"))

\* "Reset Blockchain", and the answer to window.confirm.
ResetByAnyone(confirmed) ==
    /\ view = "landing"
    /\ timers < MaxTimers
    /\ \E rnd \in HandlerSuffixes : resetBlockchain(confirmed, rnd)
    /\ UNCHANGED << view, user, now >>
    /\ IF confirmed THEN Rerender ELSE UNCHANGED local
    /\ event' = [op |-> "reset", ok |-> confirmed]
    /\ UNCHANGED pending

Reset(confirmed) ==
    /\ AdminShown
    /\ confirmed => timers < MaxTimers
    /\ \E rnd \in HandlerSuffixes : resetBlockchain(confirmed, rnd)
    /\ UNCHANGED << view, user, now >>
    /\ IF confirmed THEN Rerender ELSE UNCHANGED local
    /\ event' = [op |-> "reset", ok |-> confirmed]
    /\ UNCHANGED pending

(***************************************************************************)
(* Explorer (App.jsx 705-742).                                             *)
(***************************************************************************)
\* The blocks whose header the user clicks: the first and the last.
ExpandInputs == { 1, Len(chain) }

\* A click on the header of the block with hash h.
ToggleExpanded(h) ==
    /\ view = "explorer"
    /\ \E n \in DOMAIN chain : chain[n].hash = h
    /\ local' = [local EXCEPT !.expanded = IF local.expanded = h THEN <<>> ELSE h]
    /\ event' = Other
    /\ UNCHANGED << view, products, chain, user, toast, timers, now >>
    /\ UNCHANGED pending

(***************************************************************************)
(* The environment: a toast timer expires, the clock advances.             *)
(***************************************************************************)
\* () => setToast(null); nothing renders if the toast is null already.
TimerFires ==
    /\ timers > 0
    /\ timers' = timers - 1
    /\ toast' = NoToast
    /\ UNCHANGED << view, products, chain, user, now >>
    /\ IF toast # NoToast THEN Rerender ELSE UNCHANGED local
    /\ event' = Other
    /\ UNCHANGED pending

Next ==
    \/ \E username \in Usernames, password \in Passwords, role \in Roles :
          handleLogin(username, password, role)
    \/ \E r \in NavTargets : NavClick(r)
    \/ Logout
    \/ \E r \in LandingTargets : LandingClick(r)
    \/ \E name \in NameInputs, q \in QuantityInputs, p \in PriceInputs : Upload(name, q, p)
    \/ ViewBlocks
    \/ \E name \in BrokerNameInputs : EditBroker(name)
    \/ \E i \in DOMAIN products, confirmed \in BOOLEAN : Order(i, confirmed)
    \/ \E q \in QueryInputs : TypeQuery(q)
    \/ ScanQR
    \/ Search
    \/ \E f \in {"all", "farmer", "broker"} : SetFilterRole(f)
    \/ \E confirmed \in BOOLEAN : Reset(confirmed)
    \/ \E n \in ExpandInputs : ToggleExpanded(chain[n].hash)
    \/ TimerFires

Spec == Init /\ [][Next]_vars


(***************************************************************************)
(* The hash chain on its own: appendBlock applied to the seeded chain with *)
(* data from a small set, every suffix of RandomSuffixes and every pair of *)
(* clock readings; the rest of the state stands still.                     *)
(***************************************************************************)
HashData ==
    LET farmer == [id |-> "F-001", name |-> "Ravi Kumar", village |-> "Narsinghpur"]
        wheat == NewProduct([ id |-> AGR(IdBase), name |-> "Wheat",
                              quantityKg |-> Chars("40"), basePricePerKg |-> Chars("30"),
                              farmer |-> farmer ], "F-001")
    IN  { [type |-> "LISTING", product |-> wheat, actor |-> farmer],
          TransferData(seedProducts[1], [id |-> "B-001", name |-> "GreenSupply Pvt Ltd"]) }

HashAppend(data) ==
    /\ Len(chain) < MaxBlocks
    /\ \E ts \in ClockReadings, rnd \in RandomSuffixes :
          /\ chain' = appendBlock(chain, data, ts[1], ts[2], rnd)
          /\ now' = ts[2]
    /\ UNCHANGED << view, products, user, toast, local, timers, event >>
    /\ UNCHANGED pending

Tick ==
    /\ now < MaxTime
    /\ now' = now + 1
    /\ UNCHANGED << view, products, chain, user, toast, local, timers, event >>
    /\ UNCHANGED pending

HashNext ==
    \/ \E data \in HashData : HashAppend(data)
    \/ Tick

HashSpec == Init /\ [][HashNext]_vars

(***************************************************************************)
(* Properties.                                                             *)
(***************************************************************************)
Last(seq) == seq[Len(seq)]

\* C1: in every reachable state, for every position n after the first, the
\* block at n has prevHash equal to the hash of the block before it.
C1_PrevHashLinks ==
    \A n \in 2..Len(chain) : chain[n].prevHash = chain[n - 1].hash

\* A block has been appended to a chain that reset had cut to its genesis, and
\* one to the seeded chain.
C1_Witness ==
    /\ Len(chain) = MaxBlocks
    /\ chain[MaxBlocks].data.type = "TRANSFER"

IsGenesis(b) ==
    /\ b.index = 0
    /\ b.prevHash = Chars("0xGENESIS")
    /\ b.data.type = "GENESIS"

\* C2: in every reachable state the chain is non-empty and its first block is
\* a genesis block: index 0, prevHash "0xGENESIS", type GENESIS.
C2_GenesisFirst ==
    /\ Len(chain) >= 1
    /\ IsGenesis(chain[1])

\* A block was appended after a reset.
C2_Witness ==
    /\ products # <<>>
    /\ Len(products) = Len(chain) - 1
    /\ products[Len(products)].id = AGR(IdBase)

\* verify() by recomputation: pseudoHash of previousHash + JSON of the payload +
\* timestamp, as the block holds them, with the suffix the recomputation draws.
Recomputed(b, rnd) ==
    pseudoHash(b.prevHash \o JSONstringify(b.data) \o b.timestamp, rnd)

AsHashed(data) ==
    IF data.type = "LISTING" /\ "hashTemp" \in DOMAIN data.product
    THEN [data EXCEPT !.product = [k \in DOMAIN data.product \ {"hashTemp"} |-> data.product[k]]]
    ELSE data

Prefix8(cs) == SubSeq(cs, 1, 8)

ListOk == [op |-> "list", ok |-> TRUE]
OrderOk == [op |-> "order", ok |-> TRUE]
ResetOk == [op |-> "reset", ok |-> TRUE]

\* The step appended one block of the given type and left the others alone.
Appended(type) ==
    /\ Len(chain') = Len(chain) + 1
    /\ SubSeq(chain', 1, Len(chain)) = chain
    /\ Last(chain').data.type = type

\* The product in the k-th place counted from the end of the list: listings
\* are prepended, so the place of a product does not move.
FromEnd(ps, k) == ps[Len(ps) + 1 - k]

\* C4: for all products, status changes only from LISTED to SOLD and never
\* back, and an order for a product whose status is already SOLD appends no
\* block: no step appends a TRANSFER block for a product id while a product
\* of that id is SOLD.
C4_SoldIsFinal ==
    [][ /\ \A k \in 1..Len(products) :
              k <= Len(products') /\ FromEnd(products', k).status # FromEnd(products, k).status
                  => /\ FromEnd(products, k).status = "LISTED"
                     /\ FromEnd(products', k).status = "SOLD"
        /\ Len(chain') > Len(chain) /\ Last(chain').data.type = "TRANSFER"
              => \A i \in DOMAIN products :
                    products[i].id = Last(chain').data.product.id
                        => products[i].status # "SOLD" ]_vars

\* C5: in every reachable state no two entries of the products list have the
\* same id.
C5_ProductIdsUnique ==
    \A i \in DOMAIN products, j \in DOMAIN products :
        products[i].id = products[j].id => i = j

\* C6: the chain and the products change only in a confirmed listing by a
\* logged-in farmer, a confirmed order by a logged-in broker or a confirmed
\* reset by a logged-in admin; a reset happens only while an admin is logged
\* in; whatever else a consumer, a trace query or the explorer does leaves
\* both as they are.
C6_OnlyRoleHoldersWrite ==
    [][ /\ chain' # chain \/ products' # products
              => /\ user # NoUser /\ user' = user
                 /\ \/ seedUsers[user].role = "farmer" /\ event' = ListOk /\ Appended("LISTING")
                    \/ seedUsers[user].role = "broker" /\ event' = OrderOk /\ Appended("TRANSFER")
                    \/ seedUsers[user].role = "admin" /\ event' = ResetOk /\ Len(chain') = 1
        /\ event' = ResetOk => user # NoUser /\ seedUsers[user].role = "admin"
        /\ user # NoUser /\ seedUsers[user].role = "consumer"
              => chain' = chain /\ products' = products
        /\ view \in {"consumer", "explorer"} => chain' = chain /\ products' = products ]_vars

\* A consumer has typed a product id that the chain holds, after a broker's
\* order had changed the chain.
C6_Witness ==
    /\ view = "consumer"
    /\ local.comp = "Consumer"
    /\ record(local.query, chain).found
    /\ Len(chain) > Len(products) + 1

\* The ids a trace is asked for: those of the seeds and of the form.
TraceIds == { AGR(IdBase + k) : k \in 0..2 }

\* C7: right after a confirmed reset the chain is exactly one block, a genesis
\* block with index 0 and prevHash "0xGENESIS", the products list is empty,
\* and a trace of any product id finds no block.
C7_ResetLeavesGenesisOnly ==
    event = ResetOk =>
        /\ Len(chain) = 1
        /\ IsGenesis(chain[1])
        /\ products = <<>>
        /\ \A q \in TraceIds \cup QueryInputs : ~record(q, chain).found

\* An admin has confirmed a reset.
C7_Witness ==
    /\ event = ResetOk
    /\ view = "admin"
    /\ toast = Toast(<<"Blockchain reset successfully!">>, "success")

\* The blocks of the given type for product id q.
BlocksOf(q, type) == { n \in Related(chain, q) : chain[n].data.type = type }

\* C8: for a product with LISTING blocks only, the trace returns a listing and
\* no transfer; for a product with LISTING and TRANSFER blocks it returns one
\* of each, and the transfer has a larger index than the listing.
C8_TraceListingThenTransfer ==
    \A q \in TraceIds :
        LET r == record(q, chain) IN
        /\ BlocksOf(q, "LISTING") # {} /\ BlocksOf(q, "TRANSFER") = {}
              => /\ r.found
                 /\ r.listing \in BlocksOf(q, "LISTING")
                 /\ r.transfer = 0
        /\ BlocksOf(q, "LISTING") # {} /\ BlocksOf(q, "TRANSFER") # {}
              => /\ r.found
                 /\ r.listing \in BlocksOf(q, "LISTING")
                 /\ r.transfer \in BlocksOf(q, "TRANSFER")
                 /\ chain[r.transfer].index > chain[r.listing].index

\* One product has a listing only, another was listed, sold and listed again.
C8_Witness ==
    /\ \E q \in TraceIds : record(q, chain).found /\ record(q, chain).transfer = 0
    /\ \E q \in TraceIds :
          /\ record(q, chain).transfer # 0
          /\ \E n \in BlocksOf(q, "LISTING") : n > record(q, chain).transfer

\* C9: a confirmed order appends exactly one block, a TRANSFER block for the
\* id of a product that was LISTED, whose to.id is the id of the logged-in
\* broker, and every product of that id is SOLD afterwards.
C9_OrderAppendsTransfer ==
    [][ event' = OrderOk =>
          /\ user # NoUser /\ seedUsers[user].role = "broker"
          /\ Appended("TRANSFER")
          /\ Last(chain').data.to.id = seedUsers[user].id
          /\ Len(products') = Len(products)
          /\ \E i \in DOMAIN products :
                /\ products[i].id = Last(chain').data.product.id
                /\ products[i].status = "LISTED"
          /\ \A i \in DOMAIN products :
                IF products[i].id = Last(chain').data.product.id
                THEN products'[i].status = "SOLD"
                ELSE products'[i] = products[i] ]_vars

\* A broker who had typed another name has confirmed an order.
C9_Witness ==
    /\ event = OrderOk
    /\ Last(chain).data.type = "TRANSFER"
    /\ Last(chain).data.to = [id |-> "B-001", name |-> "Agent X"]
    /\ \E i \in DOMAIN products :
          products[i].id = Last(chain).data.product.id /\ products[i].status = "SOLD"

\* C10: an accepted listing appends exactly one block, a LISTING block, and
\* puts exactly one product in front of the list, with status LISTED; the
\* farmer.id of the product and the actor.id of the block are the id of the
\* logged-in farmer.
C10_ListAppendsListing ==
    [][ event' = ListOk =>
          /\ user # NoUser /\ seedUsers[user].role = "farmer"
          /\ Appended("LISTING")
          /\ Len(products') = Len(products) + 1
          /\ SubSeq(products', 2, Len(products')) = products
          /\ products'[1].status = "LISTED"
          /\ products'[1].farmer.id = seedUsers[user].id
          /\ Last(chain').data.product = products'[1]
          /\ Last(chain').data.actor.id = seedUsers[user].id ]_vars

\* A farmer's listing was accepted.
C10_Witness ==
    /\ event = ListOk
    /\ Last(chain).data.type = "LISTING"
    /\ Last(chain).data.product = products[1]
    /\ products[1].farmer.id = "F-001"
    /\ products[1].quantityKg = Num(40)

(***************************************************************************)
(* The Farmer form on its own: farmer1 logs in and out and uploads with    *)
(* whatever text the quantity and price fields take (they are text inputs).*)
(***************************************************************************)
TypedNumbers == { Chars("40"), Chars("0"), Chars("-5"), Chars("abc") }

FormNext ==
    \/ \E password \in Passwords : handleLogin("farmer1", password, "farmer")
    \/ \E name \in NameInputs, q \in TypedNumbers, p \in TypedNumbers : Upload(name, q, p)
    \/ Logout
    \/ TimerFires

FormSpec == Init /\ [][FormNext]_vars

\* x > 0 on a JavaScript number: false for NaN.
Positive(x) == ~x.nan /\ x.v > 0

\* C11: in every reachable state every product of the products list, and
\* every product recorded in a LISTING block, has quantityKg > 0 and
\* basePricePerKg > 0.
C11_PositiveQuantities ==
    /\ \A i \in DOMAIN products :
          Positive(products[i].quantityKg) /\ Positive(products[i].basePricePerKg)
    /\ \A n \in DOMAIN chain :
          chain[n].data.type = "LISTING"
              => /\ Positive(chain[n].data.product.quantityKg)
                 /\ Positive(chain[n].data.product.basePricePerKg)

(***************************************************************************)
(* orderProduct on its own: broker1 logs in and out and orderProduct is    *)
(* called with any product id, listed or not, sold or not.                 *)
(***************************************************************************)
OrderIds == { AGR(IdBase + k) : k \in 1..3 }

OrderById(productId, confirmed) ==
    /\ BrokerShown
    /\ timers < MaxTimers
    /\ Len(chain) < MaxBlocks
    /\ \E ts \in HandlerReadings, rnd \in HandlerSuffixes :
          orderProduct(productId, local.broker, confirmed, ts, rnd)
    /\ UNCHANGED << view, user >>
    /\ IF confirmed THEN Rerender ELSE UNCHANGED local
    /\ event' = [op |-> "order", ok |-> confirmed, id |-> productId]
    /\ UNCHANGED pending

OrderNext ==
    \/ \E password \in Passwords : handleLogin("broker1", password, "broker")
    \/ \E name \in BrokerNameInputs : EditBroker(name)
    \/ \E productId \in OrderIds, confirmed \in BOOLEAN : OrderById(productId, confirmed)
    \/ Logout
    \/ TimerFires

OrderSpec == Init /\ [][OrderNext]_vars

\* The step is a confirmed call of orderProduct with an id no product has.
OrdersUnknownId ==
    /\ event'.op = "order" /\ event'.ok
    /\ FindProduct(products, event'.id) = 0

C13_AppendOnly ==
    [][ event' # ResetOk =>
          /\ Len(chain') >= Len(chain)
          /\ SubSeq(chain', 1, Len(chain)) = chain
          /\ Len(products') >= Len(products)
          /\ \A k \in 1..Len(products) :
                FromEnd(products', k).id = FromEnd(products, k).id ]_vars

\* An order has been confirmed on a chain that a listing had extended.
C13_Witness ==
    /\ event = OrderOk
    /\ Len(chain) = MaxBlocks
    /\ Len(products) >= 3
    /\ \E n \in 4..Len(chain) : chain[n].data.type = "LISTING"

\* C14: in every reachable state the block at position N of the chain,
\* counted from 0, has index N.
C14_IndexIsPosition ==
    \A n \in DOMAIN chain : chain[n].index = n - 1

\* A listing was appended to the genesis block that a reset left.
C14_Witness ==
    /\ event = ListOk
    /\ Len(chain) = 2
    /\ chain[2].index = 1

(***************************************************************************)
(* appendBlock on its own: several calls are made before React renders,    *)
(* each queueing its updater; the render applies the queue in order.       *)
(***************************************************************************)
\* appendBlock(data): setChain((prev) => ...) is queued; `seen` is the chain
\* state of the render whose handler made the call.
QueueAppend(data) ==
    /\ Len(pending) < MaxPending
    /\ Len(chain) + Len(pending) < MaxBlocks
    /\ pending' = Append(pending, [data |-> data, seen |-> chain])
    /\ event' = Other
    /\ UNCHANGED << view, products, chain, user, toast, local, timers, now >>

\* The updater of appendBlock applied to the chain React hands it.
ApplyUpdaterToSeen(prev, item, tHash, tStamp, rnd) ==
    appendBlock(item.seen, item.data, tHash, tStamp, rnd)

ApplyUpdater(prev, item, tHash, tStamp, rnd) ==
    appendBlock(prev, item.data, tHash, tStamp, rnd)

\* React applies the queued updaters in order, each to the result of the one
\* before it.
RECURSIVE ApplyAll(_, _, _, _, _)
ApplyAll(prev, items, tHash, tStamp, rnd) ==
    IF items = <<>> THEN prev
    ELSE ApplyAll(ApplyUpdater(prev, Head(items), tHash, tStamp, rnd),
                  Tail(items), tHash, tStamp, rnd)

\* The render after the calls.
Flush ==
    /\ pending # <<>>
    /\ \E ts \in ClockReadings, rnd \in RandomSuffixes :
          /\ chain' = ApplyAll(chain, pending, ts[1], ts[2], rnd)
          /\ now' = ts[2]
    /\ pending' = <<>>
    /\ event' = [op |-> "flush", ok |-> TRUE, n |-> Len(pending)]
    /\ UNCHANGED << view, products, user, toast, local, timers >>

QueueNext ==
    \/ \E data \in HashData : QueueAppend(data)
    \/ Flush
    \/ Tick

QueueSpec == Init /\ [][QueueNext]_vars

\* C15: when several appendBlock calls are queued before any of them has
\* been applied, the render puts every one of them in the chain, in the
\* order of the calls, each linked to the block immediately before it, and no
\* two blocks of the chain link to the same previous block.
C15_QueuedAppendsAllLand ==
    [][ pending # <<>> /\ pending' = <<>> =>
          /\ Len(chain') = Len(chain) + Len(pending)
          /\ SubSeq(chain', 1, Len(chain)) = chain
          /\ \A k \in 1..Len(pending) :
                /\ chain'[Len(chain) + k].data = pending[k].data
                /\ chain'[Len(chain) + k].prevHash = chain'[Len(chain) + k - 1].hash
          /\ \A m \in DOMAIN chain', n \in DOMAIN chain' :
                m # n => chain'[m].prevHash # chain'[n].prevHash ]_vars

\* Two calls that saw the same chain were applied by one render.
C15_Witness ==
    /\ event.op = "flush"
    /\ event.n >= 2
    /\ pending = <<>>
    /\ Len(chain) = MaxBlocks

\* C16: in every reachable state the view is "login" exactly when no user is
\* logged in, a role dashboard is the view only when the role of the
\* logged-in user is that view, and no dashboard shows "Access denied".
C16_ViewMatchesUser ==
    /\ view = "login" <=> user = NoUser
    /\ view \in Roles => user # NoUser /\ seedUsers[user].role = view
    /\ local.comp # "Denied"

\* An admin is back on the dashboard after a reset and a look at the explorer.
C16_Witness ==
    /\ view = "admin"
    /\ local.comp = "Admin"
    /\ products = <<>>
    /\ event = Other
    /\ toast = NoToast

\* C17: in every reachable state a product has status SOLD if and only if
\* the chain holds a TRANSFER block whose product id is the id of that
\* product.
C17_SoldIffTransfer ==
    \A i \in DOMAIN products :
        products[i].status = "SOLD" <=> BlocksOf(products[i].id, "TRANSFER") # {}

\* The ids of the products list, and the ids the LISTING blocks carry.
ProductIds == { products[i].id : i \in DOMAIN products }
ListedIds ==
    { chain[n].data.product.id : n \in { m \in DOMAIN chain : chain[m].data.type = "LISTING" } }

\* C18: in every reachable state the set of product ids in the products list
\* equals the set of product ids carried by the LISTING blocks of the chain.
C18_ProductsMatchListings == ProductIds = ListedIds

\* A listing was accepted under an id the list already had.
C18_Witness ==
    /\ event = ListOk
    /\ \E i \in DOMAIN products : i > 1 /\ products[i].id = products[1].id

OrderDeclined == [op |-> "order", ok |-> FALSE]
ResetDeclined == [op |-> "reset", ok |-> FALSE]

\* C19: when the confirm dialog is declined, orderProduct and resetBlockchain
\* change nothing: chain, products, toast, user and view are the same after
\* the call as before it, and no timer is scheduled.
C19_DeclinedChangesNothing ==
    [][ event' \in {OrderDeclined, ResetDeclined} =>
          /\ chain' = chain
          /\ products' = products
          /\ toast' = toast
          /\ user' = user
          /\ view' = view
          /\ timers' = timers
          /\ local' = local ]_vars

\* An admin has declined the reset while a toast was shown.
C19_Witness ==
    /\ event = ResetDeclined
    /\ toast # NoToast
    /\ Len(chain) > 1

\* C20: a toast is cleared only by the timer that was scheduled together with
\* it.  Timers of equal delay fire in the order they were scheduled and the
\* toast shown is the one raised last, so a timer that clears a toast must
\* be the only one pending.
C20_OwnTimerClearsToast ==
    [][ timers' < timers /\ toast # NoToast /\ toast' = NoToast => timers = 1 ]_vars

====
